---- MODULE Spec2Model ----
(***************************************************************************)
(* Model of the natal chart API of src/app.py: the natal request handler,  *)
(* the pydantic input model in front of it, the per-body ephemeris lookup  *)
(* with its precision fallbacks, the zodiac sign mapping and the aspect    *)
(* detection.                                                              *)
(*                                                                         *)
(* Numbers.  The program computes with Python floats.  A number is         *)
(* modelled as an integer count of ticks of 10^-6 degree, and a float is   *)
(* a number with at most Digits significant decimal digits: every float    *)
(* operation that can be inexact rounds its exact result to the nearest    *)
(* such number, ties to even (Fl).  360 degrees has nine digits in ticks,  *)
(* so near 360 the grid is coarser than near 0, as it is for doubles.      *)
(***************************************************************************)
EXTENDS Integers, Sequences, FiniteSets, TLC

\* ------------------------------------------------------------------ bounds
\* Significant decimal digits of a modelled float.
Digits == 8
\* The sign mapping is tried on L + 360k for k in -MaxTurns..MaxTurns.
MaxTurns == 2
\* Bodies with a position in an input of the aspect detection.
MaxBodies == 2

\* ----------------------------------------------------------------- numbers
Deg == 1000 * 1000

Abs(x) == IF x < 0 THEN -x ELSE x

\* The value of x, computed once where it is used several times.
Once(x) == CHOOSE v \in {x} : TRUE

Min(a, b) == IF a <= b THEN a ELSE b

RECURSIVE Pow10(_)
Pow10(n) == IF n = 0 THEN 1 ELSE 10 * Pow10(n - 1)

\* Number of decimal digits of a natural number below 10^10 (0 has none).
NumDigits(a) ==
    IF a < 10000
    THEN (IF a < 1 THEN 0 ELSE IF a < 10 THEN 1 ELSE IF a < 100 THEN 2
          ELSE IF a < 1000 THEN 3 ELSE 4)
    ELSE IF a < 10000000
    THEN (IF a < 100000 THEN 5 ELSE IF a < 1000000 THEN 6 ELSE 7)
    ELSE IF a < 100000000 THEN 8 ELSE IF a < 1000000000 THEN 9 ELSE 10

\* a rounded to the nearest multiple of unit, ties to the even multiple.
RoundHalfEven(x, unit) ==
    LET a == Abs(x)
        q == a \div unit
        r == a % unit
        up == 2 * r > unit \/ (2 * r = unit /\ q % 2 = 1)
        m == (IF up THEN q + 1 ELSE q) * unit
    IN IF x < 0 THEN -m ELSE m

\* The float nearest to the exact value x.
Fl(x) ==
    LET k == NumDigits(Abs(x))
    IN IF k <= Digits THEN x ELSE RoundHalfEven(x, Pow10(k - Digits))

\* Python's x % w on floats, w > 0: the exact C fmod (sign of x), and when that
\* is negative the float sum fmod + w.
PyMod(x, w) ==
    LET m == IF x < 0 THEN -((-x) % w) ELSE x % w
    IN IF m < 0 THEN Fl(m + w) ELSE m

\* Python's x // w on floats for x >= 0, w > 0, as an int.
PyFloorDiv(x, w) == x \div w

\* Python's round(x, nd), nd <= 6.
Round(x, nd) == Fl(RoundHalfEven(x, Pow10(6 - nd)))

\* Python's seq[i]: negative indices count from the end.
PyIndexOk(seq, i) == -Len(seq) <= i /\ i < Len(seq)

PyIndex(seq, i) == IF i < 0 THEN seq[Len(seq) + i + 1] ELSE seq[i + 1]

\* ------------------------------------------------------------ zodiac signs
SIGNS == << "Aries", "Taurus", "Gemini", "Cancer", "Leo", "Virgo",
            "Libra", "Scorpio", "Sagittarius", "Capricorn", "Aquarius", "Pisces" >>

\* lon_to_sign_deg: the (sign, degree) pair, or the IndexError SIGNS[...] raises.
lon_to_sign_deg(lon) ==
    LET l == PyMod(lon, 360 * Deg)
        idx == PyFloorDiv(l, 30 * Deg)
        deg_in_sign == Fl(l - idx * 30 * Deg)
    IN IF PyIndexOk(SIGNS, idx)
       THEN [ok |-> TRUE, sign |-> PyIndex(SIGNS, idx), idx |-> idx,
             deg |-> Round(deg_in_sign, 2), exc |-> "none"]
       ELSE [ok |-> FALSE, sign |-> "none", idx |-> idx, deg |-> 0,
             exc |-> "IndexError"]

\* ------------------------------------------------- per-body ephemeris lookup
\* The three flag words swe_calc_lonlat passes to swe.calc_ut, in code order.
FLG_SWIEPH_SPEED == "SWIEPH|SPEED"

FLG_SWIEPH == "SWIEPH"

FLG_MOSEPH == "MOSEPH"

CalcFlags == << FLG_SWIEPH_SPEED, FLG_SWIEPH, FLG_MOSEPH >>

\* What one swe.calc_ut call answers: it raises, or returns a tuple of `arity`
\* elements whose first element is a list/tuple (`isSeq`) holding `vals`, or
\* something else.
CalcRaise == [raises |-> TRUE, arity |-> 0, isSeq |-> FALSE, vals |-> << >>]

CalcBadArity == [raises |-> FALSE, arity |-> 3, isSeq |-> TRUE, vals |-> << >>]

CalcNotSeq == [raises |-> FALSE, arity |-> 2, isSeq |-> FALSE, vals |-> << >>]

CalcShort(lon) == [raises |-> FALSE, arity |-> 2, isSeq |-> TRUE, vals |-> << lon >>]

CalcGood(lon, lat) ==
    [raises |-> FALSE, arity |-> 2, isSeq |-> TRUE, vals |-> << lon, lat, Deg >>]

\* `vals, flags = swe.calc_ut(...)` unpacks and the shape test passes.
StageGood(a) == ~a.raises /\ a.arity = 2 /\ a.isSeq /\ Len(a.vals) >= 2

\* The value a good stage returns: (vals[0] % 360.0, vals[1]).
CalcReturn(a, calls) ==
    [ok |-> TRUE, lon |-> PyMod(a.vals[1], 360 * Deg), lat |-> a.vals[2],
     exc |-> "none", calls |-> calls]

CalcFail(exc, calls) == [ok |-> FALSE, lon |-> 0, lat |-> 0, exc |-> exc, calls |-> calls]

\* A variant that goes from the first stage straight to the Moshier stage.
swe_calc_lonlat_SkipSecond(eph) ==
    IF StageGood(eph[FLG_SWIEPH_SPEED])
    THEN CalcReturn(eph[FLG_SWIEPH_SPEED], << FLG_SWIEPH_SPEED >>)
    ELSE IF StageGood(eph[FLG_MOSEPH])
    THEN CalcReturn(eph[FLG_MOSEPH], << FLG_SWIEPH_SPEED, FLG_MOSEPH >>)
    ELSE CalcFail("RuntimeError: pyswisseph returned invalid tuple",
                  << FLG_SWIEPH_SPEED, FLG_MOSEPH >>)

\* swe_calc_lonlat(jdut, planet_id), with eph the answers swe.calc_ut gives for
\* this jdut and planet_id under each flag word.  calls lists the flag words of
\* the calls made, in order.
swe_calc_lonlat(eph) ==
    LET a1 == eph[FLG_SWIEPH_SPEED]
        a2 == eph[FLG_SWIEPH]
        a3 == eph[FLG_MOSEPH]
        c1 == << FLG_SWIEPH_SPEED >>
        c2 == << FLG_SWIEPH_SPEED, FLG_SWIEPH >>
        c3 == << FLG_SWIEPH_SPEED, FLG_SWIEPH, FLG_MOSEPH >>
    IN IF StageGood(a1) THEN CalcReturn(a1, c1)
       ELSE IF StageGood(a2) THEN CalcReturn(a2, c2)
       ELSE IF a3.raises THEN CalcFail("collaborator error", c3)
       ELSE IF a3.arity # 2 THEN CalcFail("ValueError: unpack", c3)
       ELSE IF ~(a3.isSeq /\ Len(a3.vals) >= 2)
            THEN CalcFail("RuntimeError: pyswisseph returned invalid tuple", c3)
       ELSE CalcReturn(a3, c3)

\* ----------------------------------------------------------------- strings
\* A string the code inspects character by character is a sequence of
\* one-character strings.
UpperChars == << "A", "B", "C", "D", "E", "F", "G", "H", "I", "J", "K", "L", "M",
                 "N", "O", "P", "Q", "R", "S", "T", "U", "V", "W", "X", "Y", "Z" >>

LowerChars == << "a", "b", "c", "d", "e", "f", "g", "h", "i", "j", "k", "l", "m",
                 "n", "o", "p", "q", "r", "s", "t", "u", "v", "w", "x", "y", "z" >>

DigitChars == << "0", "1", "2", "3", "4", "5", "6", "7", "8", "9" >>

LowerChar(c) ==
    IF \E i \in 1..26 : UpperChars[i] = c
    THEN LowerChars[CHOOSE i \in 1..26 : UpperChars[i] = c]
    ELSE c

\* str.lower()
Lower(s) == [i \in 1..Len(s) |-> LowerChar(s[i])]

\* str.strip()
RECURSIVE Strip(_)
Strip(s) ==
    IF s = << >> THEN s
    ELSE IF Head(s) = " " THEN Strip(Tail(s))
    ELSE IF s[Len(s)] = " " THEN Strip(SubSeq(s, 1, Len(s) - 1))
    ELSE s

IsDigit(c) == \E i \in 1..10 : DigitChars[i] = c

DigitVal(c) == (CHOOSE i \in 1..10 : DigitChars[i] = c) - 1

\* ------------------------------------------------------------ house systems
K_Placidus == << "P", "l", "a", "c", "i", "d", "u", "s" >>

K_Koch == << "K", "o", "c", "h" >>

K_Porphyry == << "P", "o", "r", "p", "h", "y", "r", "y" >>

K_Porphyrius == << "P", "o", "r", "p", "h", "y", "r", "i", "u", "s" >>

K_Regiomontanus == << "R", "e", "g", "i", "o", "m", "o", "n", "t", "a", "n", "u", "s" >>

K_Campanus == << "C", "a", "m", "p", "a", "n", "u", "s" >>

K_Equal == << "E", "q", "u", "a", "l" >>

K_WholeSign == << "W", "h", "o", "l", "e", "S", "i", "g", "n" >>

\* The keys of HOUSE_MAP.
HOUSE_KEYS ==
    { K_Placidus,
      K_Koch,
      K_Porphyry,
      K_Porphyrius,
      K_Regiomontanus,
      K_Campanus,
      K_Equal,
      K_WholeSign }

\* HOUSE_MAP[key], for key in HOUSE_KEYS.
HOUSE_MAP(key) ==
    CASE key = K_Placidus -> "HOUSES_PLACIDUS"
      [] key = K_Koch -> "HOUSES_KOCH"
      [] key = K_Porphyry -> "HOUSES_PORPHYRIUS"
      [] key = K_Porphyrius -> "HOUSES_PORPHYRIUS"
      [] key = K_Regiomontanus -> "HOUSES_REGIOMONTANUS"
      [] key = K_Campanus -> "HOUSES_CAMPANUS"
      [] key = K_Equal -> "HOUSES_EQUAL"
      [] key = K_WholeSign -> "HOUSES_WHOLE_SIGN"

\* NatalInput.valid_house, the field validator pydantic runs on a house_system
\* that the request gives: exact membership in HOUSE_MAP.
NatalInput_valid_house(v) ==
    IF v \in HOUSE_KEYS THEN [ok |-> TRUE, value |-> v] ELSE [ok |-> FALSE, value |-> v]

\* ALIASES.get(k, v)
ALIASES_get(k, v) ==
    CASE k = << "p", "o", "r", "p", "h", "y", "r", "y" >> -> K_Porphyry
      [] k = << "p", "o", "r", "p", "h", "y", "r", "i", "u", "s" >> -> K_Porphyrius
      [] k = << "w", "h", "o", "l", "e", "s", "i", "g", "n" >> -> K_WholeSign
      [] k = << "w", "h", "o", "l", "e", " ", "s", "i", "g", "n" >> -> K_WholeSign
      [] k = << "w", "h", "o", "l", "e", "-", "s", "i", "g", "n" >> -> K_WholeSign
      [] OTHER -> v

\* The module-level valid_house.  It is defined outside the NatalInput class, so
\* pydantic never runs it: no action of the model uses it.
valid_house(v) ==
    LET key == ALIASES_get(Lower(Strip(v)), v)
    IN IF key \in HOUSE_KEYS THEN [ok |-> TRUE, value |-> key]
       ELSE [ok |-> FALSE, value |-> v]

\* --------------------------------------------------------- time normalizer
\* The zones tz.gettz knows, with their UTC offset in minutes on the dates used.
KnownZones == { "America/New_York", "UTC" }

ZoneOffset(tzname) == IF tzname = "America/New_York" THEN -(5 * 60) ELSE 0

AllDigits(s) == \A i \in 1..Len(s) : IsDigit(s[i])

NumVal(s) == IF Len(s) = 1 THEN DigitVal(s[1]) ELSE 10 * DigitVal(s[1]) + DigitVal(s[2])

\* strptime's "%H:%M" on the time part: one or two digits, 0..23, a colon, one
\* or two digits, 0..59, and nothing else.
ParseHM(s) ==
    LET n == Len(s)
        cuts == { i \in 2..(n - 1) :
                    /\ s[i] = ":"
                    /\ i - 1 <= 2 /\ n - i <= 2
                    /\ AllDigits(SubSeq(s, 1, i - 1))
                    /\ AllDigits(SubSeq(s, i + 1, n))
                    /\ NumVal(SubSeq(s, 1, i - 1)) <= 23
                    /\ NumVal(SubSeq(s, i + 1, n)) <= 59 }
    IN IF cuts = {} THEN [ok |-> FALSE, hh |-> 0, mm |-> 0]
       ELSE LET i == CHOOSE c \in cuts : TRUE
            IN [ok |-> TRUE, hh |-> NumVal(SubSeq(s, 1, i - 1)),
                mm |-> NumVal(SubSeq(s, i + 1, n))]

\* to_utc_iso(date_str, time_str, tzname): the UTC instant, or the ValueError.
\* The date is a day number; the instant is (day, minute of the day).
to_utc_iso(date, time_str, tzname) ==
    IF tzname \notin KnownZones
    THEN [ok |-> FALSE, exc |-> "Invalid timezone string. Use IANA, e.g., 'America/New_York'.",
          day |-> 0, minute |-> 0]
    ELSE LET t == ParseHM(time_str)
         IN IF ~t.ok
            THEN [ok |-> FALSE, exc |-> "time data does not match format '%Y-%m-%d %H:%M'",
                  day |-> 0, minute |-> 0]
            ELSE LET total == date * 1440 + t.hh * 60 + t.mm - ZoneOffset(tzname)
                 IN [ok |-> TRUE, exc |-> "none",
                     day |-> total \div 1440, minute |-> total % 1440]

\* ----------------------------------------------------------------- aspects
\* ASPECTS: (name, exact_degrees, max_orb_degrees), in table order.
ASPECTS ==
    << [name |-> "conjunction", exact |-> 0, orb |-> 8],
       [name |-> "opposition", exact |-> 180, orb |-> 8],
       [name |-> "trine", exact |-> 120, orb |-> 7],
       [name |-> "square", exact |-> 90, orb |-> 6],
       [name |-> "sextile", exact |-> 60, orb |-> 5] >>

planet_labels ==
    << "Sun", "Moon", "Mercury", "Venus", "Mars", "Jupiter", "Saturn", "Uranus",
       "Neptune", "Pluto" >>

names_for_aspects == planet_labels \o << "North Node", "South Node" >>

\* "lon" in p
HasLon(p) == "lon" \in DOMAIN p

\* n in body_lons: some entry of planets named n has a longitude.
InBodyLons(planets_, n) ==
    \E i \in 1..Len(planets_) : planets_[i].name = n /\ HasLon(planets_[i])

\* body_lons[n]
BodyLon(planets_, n) ==
    LET i == CHOOSE k \in 1..Len(planets_) :
                 planets_[k].name = n /\ HasLon(planets_[k])
    IN planets_[i].lon

\* names_for_aspects = [n for n in names_for_aspects if n in body_lons]
RECURSIVE FilterNames(_, _)
FilterNames(names, planets_) ==
    IF names = << >> THEN << >>
    ELSE IF InBodyLons(planets_, Head(names))
         THEN << Head(names) >> \o FilterNames(Tail(names), planets_)
         ELSE FilterNames(Tail(names), planets_)

\* A variant of the separation that takes the plain difference.
AspDist_NoWrap(lonA, lonB) == Fl(Abs(lonA - lonB))

\* dist = min(abs(lonA - lonB), 360.0 - abs(lonA - lonB))
AspDist(lonA, lonB) ==
    LET d == Fl(Abs(lonA - lonB))
    IN Min(d, Fl(360 * Deg - d))

\* The inner loop over ASPECTS: the entry for the first aspect with
\* diff <= orb (and break), or nothing.
RECURSIVE AspectScan(_, _, _, _)
AspectScan(na, nb, dist, k) ==
    IF k > Len(ASPECTS) THEN << >>
    ELSE LET diff == Fl(Abs(dist - ASPECTS[k].exact * Deg))
         IN IF diff <= ASPECTS[k].orb * Deg
            THEN << [a |-> na, b |-> nb, type |-> ASPECTS[k].name,
                     orb |-> Round(diff, 2), dist |-> Round(dist, 2),
                     exact |-> ASPECTS[k].exact] >>
            ELSE AspectScan(na, nb, dist, k + 1)

\* The two loops over names_for_aspects: i over all names, j over names[i+1:];
\* lons[k] is body_lons[names[k]] % 360.0.
RECURSIVE AspectLoop(_, _, _, _)
AspectLoop(names, lons, i, j) ==
    IF i > Len(names) THEN << >>
    ELSE IF j > Len(names) THEN AspectLoop(names, lons, i + 1, i + 2)
    ELSE AspectScan(names[i], names[j], Once(AspDist(lons[i], lons[j])), 1)
             \o AspectLoop(names, lons, i, j + 1)

\* Step 6 of natal: asp_results for the planets list.
Aspects(planets_) ==
    LET names == Once(FilterNames(names_for_aspects, planets_))
        lons == Once([k \in 1..Len(names) |->
                         PyMod(BodyLon(planets_, names[k]), 360 * Deg)])
    IN AspectLoop(names, lons, 1, 2)

\* ------------------------------------------------------- the natal handler
\* What the collaborators answer for the one birth instant of the model: the
\* longitude and latitude swe.calc_ut gives each body, in planet_labels order.
EphLon ==
    << 280368950, 223323750, 271889750, 241565450, 327963350,
       25253125, 40395645, 314809250, 303193050, 251454750 >>

EphLat == << 0, 5170000, -(2 * Deg), Deg, -Deg, -Deg, -(2 * Deg), 0, 0, 10 * Deg >>

\* The answers swe.calc_ut may give for body i under one flag word: with a
\* Swiss ephemeris flag word it raises (no data file) or answers, with the
\* Moshier flag word it answers, well-formed or not.
NatalAnswers(i, flag) ==
    IF flag = FLG_MOSEPH
    THEN { CalcShort(EphLon[i]), CalcGood(EphLon[i], EphLat[i]) }
    ELSE { CalcRaise, CalcGood(EphLon[i], EphLat[i]) }

\* The collaborator for body i: one answer for each flag word.
NatalEphs(i) ==
    { eph \in [{FLG_SWIEPH_SPEED, FLG_SWIEPH, FLG_MOSEPH} ->
                  { CalcRaise, CalcShort(EphLon[i]), CalcGood(EphLon[i], EphLat[i]) }] :
        \A f \in DOMAIN eph : eph[f] \in NatalAnswers(i, f) }

\* angle.ASC(chart): raises, or an object with a lon attribute.
AscAnswers ==
    { [raises |-> TRUE, hasLon |-> FALSE, lon |-> 0],
      [raises |-> FALSE, hasLon |-> TRUE, lon |-> 15 * Deg + 254321] }

McAnswer == [raises |-> FALSE, hasLon |-> TRUE, lon |-> 283 * Deg + 500000]

\* chart.houses.getHouse(i) for i in 1..12: raises, or cusps with or without lon.
EqualCusps(start) == [i \in 1..12 |-> (start + (i - 1) * 30 * Deg) % (360 * Deg)]

CuspAnswers ==
    { [raises |-> TRUE, hasLon |-> FALSE, lons |-> EqualCusps(0)],
      [raises |-> FALSE, hasLon |-> FALSE, lons |-> EqualCusps(0)],
      [raises |-> FALSE, hasLon |-> TRUE, lons |-> EqualCusps(15 * Deg + 254321)],
      [raises |-> FALSE, hasLon |-> TRUE,
       lons |-> [EqualCusps(0) EXCEPT ![1] = -1]] }

\* chart.get(NODE_ID): raises, or an object with a lon attribute.
NodeAnswers ==
    { [raises |-> TRUE, hasLon |-> FALSE, lon |-> 0],
      [raises |-> FALSE, hasLon |-> TRUE, lon |-> 179 * Deg + 999960],
      [raises |-> FALSE, hasLon |-> TRUE, lon |-> 5 * Deg + 149] }

\* The requests tried.
S_1423 == << "1", "4", ":", "2", "3" >>

S_2400 == << "2", "4", ":", "0", "0" >>

Given(s) == [given |-> TRUE, s |-> s]

Absent == [given |-> FALSE, s |-> << >>]

TimeInputs == { Absent, Given(<< >>), Given(S_1423), Given(S_2400) }

TzInputs == { "America/New_York", "Mars/Phobos" }

HouseInputs ==
    { Absent, Given(K_WholeSign),
      Given(<< "p", "l", "a", "c", "i", "d", "u", "s" >>),
      Given(<< "K", "O", "C", "H" >>),
      Given(<< "w", "h", "o", "l", "e", " ", "s", "i", "g", "n" >>),
      Given(<< "w", "h", "o", "l", "e", "-", "s", "i", "g", "n" >>),
      Given(<< " ", "K", "o", "c", "h", " " >>),
      Given(<< "F", "o", "o" >>) }

Headers == { "none", "s3cret" }

Secrets == { "none", "s3cret" }

\* 2000-01-01 as a day number.
BirthDate == 30 * 365 + 7

VARIABLES
    secret,     \* the shared secret of the process environment ("none": unset)
    req,        \* the request being served
    pc,         \* the handler's position
    payload,    \* the validated NatalInput
    utc,        \* utc_dt
    ephCalled,  \* a collaborator computation has been called for this request
    chart,      \* the flatlib chart
    asc, mc,    \* the angle objects
    houses,     \* the houses list
    planets,    \* the planets list
    nodeExc,    \* what the node block's except clause swallowed
    resp,       \* the response's status and detail
    body,       \* the response's body
    failedBodies,  \* history: the bodies whose swe_calc_lonlat call raised
    shapeAt     \* history: where a malformed collaborator answer raised

natalVars ==
    << secret, req, pc, payload, utc, ephCalled, chart, asc, mc, houses, planets,
       nodeExc, resp, body, failedBodies, shapeAt >>

histVars == << failedBodies, shapeAt >>

VARIABLES
    signIn, signOut,          \* lon_to_sign_deg: argument and result
    calcIn, calcOut,          \* swe_calc_lonlat: the collaborator's answers, result
    aspIn, aspOut, aspDone    \* the aspects step: planets list, asp_results

pureVars == << signIn, signOut, calcIn, calcOut, aspIn, aspOut, aspDone >>

vars == << natalVars, pureVars >>

NoReq == [header |-> "none", date |-> 0, time |-> Absent, timezone |-> "", house |-> Absent]

NoPayload == [date |-> 0, time |-> << >>, timezone |-> "", house_system |-> << >>]

NoUtc == [day |-> 0, minute |-> 0]

NoChart == [hsys |-> "none"]

NoAngle == [raises |-> FALSE, hasLon |-> FALSE, lon |-> 0]

NoResp == [status |-> 0, detail |-> << >>, step |-> "none"]

NoBody ==
    [meta |-> [house_system |-> << >>, datetime_utc |-> NoUtc],
     angles |-> << >>, houses |-> << >>, planets |-> << >>, aspects |-> << >>,
     rising_sign |-> << >>]

\* The request-scoped locals, as they are when no request is being served.
LocalsCleared ==
    /\ payload' = NoPayload /\ utc' = NoUtc /\ chart' = NoChart
    /\ asc' = NoAngle /\ mc' = NoAngle
    /\ houses' = << >> /\ planets' = << >> /\ nodeExc' = "notrun"

NatalInit ==
    /\ secret \in Secrets
    /\ req = NoReq /\ pc = "idle" /\ payload = NoPayload /\ utc = NoUtc
    /\ ephCalled = FALSE /\ chart = NoChart /\ asc = NoAngle /\ mc = NoAngle
    /\ houses = << >> /\ planets = << >> /\ nodeExc = "notrun"
    /\ resp = NoResp /\ body = NoBody
    /\ failedBodies = {} /\ shapeAt = {}

\* A variant of the handler's except clause that answers with a client error.
ErrorResponse_400(e, step) ==
    [status |-> 400, detail |-> << "Calculation error", e >>, step |-> step]

\* except Exception as e: raise HTTPException(status_code=500, ...)
ErrorResponse(e, step) ==
    [status |-> 500, detail |-> << "Calculation error", e >>, step |-> step]

\* The request ends with an exception e caught by natal's except clause.
Fail(e, step) ==
    /\ resp' = ErrorResponse(e, step)
    /\ body' = NoBody
    /\ pc' = "done"
    /\ LocalsCleared

\* A request arrives: natal reads no header and no environment variable.
Receive ==
    /\ pc = "idle"
    /\ \E h \in Headers, t \in TimeInputs, z \in TzInputs, hs \in HouseInputs :
          req' = [header |-> h, date |-> BirthDate, time |-> t, timezone |-> z,
                  house |-> hs]
    /\ pc' = "validate"
    /\ UNCHANGED << secret, payload, utc, ephCalled, chart, asc, mc, houses, planets,
                    nodeExc, resp, body >>
    /\ UNCHANGED << histVars, pureVars >>

\* FastAPI builds the NatalInput: time is a required str; house_system is
\* validated when given and defaults to "Placidus" (unvalidated) when not.  A
\* validation error ends the request with status 422 before natal runs.
Validate ==
    /\ pc = "validate"
    /\ IF ~req.time.given
       THEN /\ resp' = [status |-> 422, detail |-> << "time", "Field required" >>,
                        step |-> "validate"]
            /\ body' = NoBody /\ pc' = "done" /\ LocalsCleared
       ELSE IF req.house.given /\ ~NatalInput_valid_house(req.house.s).ok
       THEN /\ resp' = [status |-> 422,
                        detail |-> << "house_system", "house_system must be one of" >>,
                        step |-> "validate"]
            /\ body' = NoBody /\ pc' = "done" /\ LocalsCleared
       ELSE /\ payload' =
                [date |-> req.date, time |-> req.time.s, timezone |-> req.timezone,
                 house_system |-> IF req.house.given
                                  THEN NatalInput_valid_house(req.house.s).value
                                  ELSE K_Placidus]
            /\ pc' = "to_utc"
            /\ UNCHANGED << utc, chart, asc, mc, houses, planets, nodeExc, resp, body >>
    /\ UNCHANGED << secret, req, ephCalled >>
    /\ UNCHANGED << histVars, pureVars >>

\* 1) Normalize to UTC
ToUtc ==
    /\ pc = "to_utc"
    /\ LET r == to_utc_iso(payload.date, payload.time, payload.timezone)
       IN IF r.ok
          THEN /\ utc' = [day |-> r.day, minute |-> r.minute]
               /\ pc' = "chart"
               /\ UNCHANGED << payload, chart, asc, mc, houses, planets, nodeExc,
                               resp, body >>
          ELSE Fail(r.exc, "to_utc")
    /\ UNCHANGED << secret, req, ephCalled >>
    /\ UNCHANGED << histVars, pureVars >>

\* 2) Build flatlib objects: Datetime, GeoPos, Chart(fl_dt, pos, hsys=HOUSE_MAP[...])
BuildChart ==
    /\ pc = "chart"
    /\ ephCalled' = TRUE
    /\ \E raises \in BOOLEAN :
          IF raises
          THEN Fail("chart construction failed", "chart")
          ELSE /\ chart' = [hsys |-> HOUSE_MAP(payload.house_system)]
               /\ pc' = "angles"
               /\ UNCHANGED << payload, utc, asc, mc, houses, planets, nodeExc, resp,
                               body >>
    /\ UNCHANGED << secret, req >>
    /\ UNCHANGED << histVars, pureVars >>

\* 3) Angles
Angles ==
    /\ pc = "angles"
    /\ \E a \in AscAnswers :
          IF a.raises
          THEN Fail("angle computation failed", "angles")
          ELSE /\ asc' = a /\ mc' = McAnswer
               /\ pc' = "houses"
               /\ UNCHANGED << payload, utc, chart, houses, planets, nodeExc, resp,
                               body >>
    /\ UNCHANGED << secret, req, ephCalled >>
    /\ UNCHANGED << histVars, pureVars >>

\* One entry of the houses list.
HouseEntry(i, lon) ==
    LET sd == lon_to_sign_deg(lon)
    IN [n |-> i, sign |-> sd.sign, deg |-> sd.deg, lon |-> Round(PyMod(lon, 360 * Deg), 4)]

\* 4) Houses: the loop over the twelve cusps, aborted by the first exception.
Houses ==
    /\ pc = "houses"
    /\ \E c \in CuspAnswers :
          /\ shapeAt' = IF ~c.raises /\ ~c.hasLon THEN shapeAt \cup {"houses"} ELSE shapeAt
          /\ IF c.raises THEN Fail("house cusp lookup failed", "houses")
            ELSE IF ~c.hasLon THEN Fail("AttributeError: lon", "houses")
            ELSE IF \E i \in 1..12 : ~lon_to_sign_deg(c.lons[i]).ok
            THEN Fail("IndexError: list index out of range", "houses")
            ELSE /\ houses' = [i \in 1..12 |-> HouseEntry(i, c.lons[i])]
                 /\ pc' = "planets"
                 /\ UNCHANGED << payload, utc, chart, asc, mc, planets, nodeExc, resp,
                                 body >>
    /\ UNCHANGED << secret, req, ephCalled >>
    /\ UNCHANGED << failedBodies, pureVars >>

\* A variant that leaves a failed body out of the list.
PlanetEntries_SkipFailed(label, r) ==
    LET sd == lon_to_sign_deg(r.lon)
    IN IF r.ok /\ sd.ok
       THEN << [name |-> label, sign |-> sd.sign, deg |-> sd.deg, lon |-> Round(r.lon, 4),
                lat |-> Round(r.lat, 4), speed |-> 0] >>
       ELSE << >>

\* The body of the loop over planet_labels, given what swe_calc_lonlat did: the
\* entries appended for label.
PlanetEntries(label, r) ==
    LET sd == lon_to_sign_deg(r.lon)
    IN IF ~r.ok THEN << [name |-> label, error |-> << "calc failed", r.exc >>] >>
       ELSE IF ~sd.ok THEN << [name |-> label, error |-> << "calc failed", sd.exc >>] >>
       ELSE << [name |-> label, sign |-> sd.sign, deg |-> sd.deg, lon |-> Round(r.lon, 4),
                lat |-> Round(r.lat, 4), speed |-> 0] >>

\* 5) Planets: one turn of the loop over planet_labels.
Planet ==
    /\ pc = "planets"
    /\ LET i == Len(planets) + 1
       IN \E eph \in NatalEphs(i) :
             LET r == swe_calc_lonlat(eph)
             IN /\ planets' = planets \o PlanetEntries(planet_labels[i], r)
                /\ failedBodies' =
                      IF r.ok THEN failedBodies ELSE failedBodies \cup {planet_labels[i]}
                /\ shapeAt' =
                      IF r.exc = "RuntimeError: pyswisseph returned invalid tuple"
                      THEN shapeAt \cup {"planets"} ELSE shapeAt
                /\ pc' = IF i = Len(planet_labels) THEN "finish" ELSE "planets"
    /\ UNCHANGED << secret, req, payload, utc, ephCalled, chart, asc, mc, houses,
                    nodeExc, resp, body >>
    /\ UNCHANGED pureVars

\* A variant that reports the node's own longitude for the South Node.
SouthLon_Same(node_lon) == node_lon

\* south_lon = (node_lon + 180.0) % 360.0
SouthLon(node_lon) == PyMod(Fl(node_lon + 180 * Deg), 360 * Deg)

NodeEntry(name, lon) ==
    LET sd == lon_to_sign_deg(lon)
    IN [name |-> name, sign |-> sd.sign, deg |-> sd.deg, lon |-> Round(lon, 4),
        lat |-> 0, speed |-> 0]

\* The entries the node block appends for an answer of chart.get(NODE_ID) that
\* has a longitude.
NodeEntries(node_lon) ==
    << NodeEntry("North Node", node_lon), NodeEntry("South Node", SouthLon(node_lon)) >>

\* Node + South Node: NODE_ID is always a global of the module, so the node
\* comes from chart.get(NODE_ID), whose answer is a; any exception is swallowed.
\* exc is what the except clause swallowed, entries what the block appended.
NodeBlock(a) ==
    IF a.raises THEN [exc |-> "chart.get failed", entries |-> << >>]
    ELSE IF ~a.hasLon THEN [exc |-> "AttributeError: lon", entries |-> << >>]
    ELSE LET node_lon == PyMod(a.lon, 360 * Deg)
         IN IF ~lon_to_sign_deg(node_lon).ok
            THEN [exc |-> "IndexError", entries |-> << >>]
            ELSE IF ~lon_to_sign_deg(SouthLon(node_lon)).ok
            THEN [exc |-> "IndexError",
                  entries |-> << NodeEntry("North Node", node_lon) >>]
            ELSE [exc |-> "none", entries |-> NodeEntries(node_lon)]

\* angle_to_obj(name, lon)
angle_to_obj(name, lon) ==
    LET sd == lon_to_sign_deg(lon)
    IN [name |-> name, sign |-> sd.sign, deg |-> sd.deg,
        lon |-> Round(PyMod(lon, 360 * Deg), 4)]

\* The rest of natal after the planets loop: the node block, 6) Aspects and
\* 7) Response.
Finish ==
    /\ pc = "finish"
    /\ \E a \in NodeAnswers :
          LET nb == NodeBlock(a)
              all == planets \o nb.entries
          IN IF ~asc.hasLon \/ ~mc.hasLon
             THEN Fail("AttributeError: lon", "response")
             ELSE IF ~lon_to_sign_deg(asc.lon).ok \/ ~lon_to_sign_deg(mc.lon).ok
             THEN Fail("IndexError: list index out of range", "response")
             ELSE /\ resp' = [status |-> 200, detail |-> << >>, step |-> "response"]
                  /\ body' =
                       [meta |-> [house_system |-> payload.house_system,
                                  datetime_utc |-> utc],
                        angles |-> << angle_to_obj("ASC", asc.lon),
                                      angle_to_obj("MC", mc.lon) >>,
                        houses |-> houses,
                        planets |-> all,
                        aspects |-> Aspects(all),
                        rising_sign |-> << angle_to_obj("ASC", asc.lon).sign,
                                           angle_to_obj("ASC", asc.lon).deg >>]
                  /\ nodeExc' = nb.exc
                  /\ pc' = "done"
                  /\ payload' = NoPayload /\ utc' = NoUtc /\ chart' = NoChart
                  /\ asc' = NoAngle /\ mc' = NoAngle /\ houses' = << >>
                  /\ planets' = << >>
    /\ UNCHANGED << secret, req, ephCalled >>
    /\ UNCHANGED << histVars, pureVars >>

\* The response has been sent; nothing of the request is kept.
Reset ==
    /\ pc = "done"
    /\ pc' = "idle"
    /\ req' = NoReq /\ ephCalled' = FALSE /\ resp' = NoResp /\ body' = NoBody
    /\ LocalsCleared
    /\ failedBodies' = {} /\ shapeAt' = {}
    /\ UNCHANGED secret
    /\ UNCHANGED pureVars

Next ==
    \/ Receive
    \/ Validate
    \/ ToUtc
    \/ BuildChart
    \/ Angles
    \/ Houses
    \/ Planet
    \/ Finish
    \/ Reset

\* ------------------------------------ the pure functions, applied to inputs
NoSign == [ok |-> FALSE, sign |-> "none", idx |-> 0, deg |-> 0, exc |-> "notcalled"]

NoCalc == CalcFail("notcalled", << >>)

NoCalcIn == [f \in {FLG_SWIEPH_SPEED, FLG_SWIEPH, FLG_MOSEPH} |-> CalcRaise]

PureIdle ==
    /\ signIn = 0 /\ signOut = NoSign
    /\ calcIn = NoCalcIn /\ calcOut = NoCalc
    /\ aspIn = << >> /\ aspOut = << >> /\ aspDone = FALSE

NatalIdle == NatalInit /\ secret = "none"

\* The natal handler serving requests one after the other.
Init == NatalInit /\ PureIdle

Spec == Init /\ [][Next]_vars

\* Longitudes in [0, 360) and just below 0, in ticks.
SignBases ==
    { 0, 1, 15 * Deg, 29 * Deg + 990000, 30 * Deg, 45 * Deg + 500000, 90 * Deg,
      120 * Deg + 250000, 180 * Deg, 270 * Deg, 329 * Deg + 995000, 330 * Deg,
      359 * Deg + 999000, -1, -4, -Deg, -30 * Deg, -1000 }

SignInputs ==
    { x \in { b + k * 360 * Deg : b \in SignBases, k \in -MaxTurns..MaxTurns } :
        Fl(x) = x }

SignInit == signIn \in SignInputs /\ signOut = NoSign

SignApply ==
    /\ signOut = NoSign
    /\ signOut' = lon_to_sign_deg(signIn)
    /\ UNCHANGED << signIn, calcIn, calcOut, aspIn, aspOut, aspDone >>
    /\ UNCHANGED natalVars

InitSign ==
    /\ NatalIdle /\ SignInit
    /\ calcIn = NoCalcIn /\ calcOut = NoCalc
    /\ aspIn = << >> /\ aspOut = << >> /\ aspDone = FALSE

NextSign == SignApply

SpecSign == InitSign /\ [][NextSign]_vars

\* The answers swe.calc_ut may give under one flag word.
CalcAnswers ==
    { CalcRaise, CalcBadArity, CalcNotSeq, CalcShort(10 * Deg),
      CalcGood(10 * Deg, Deg), CalcGood(370 * Deg + 500000, -Deg), CalcGood(-1, 0) }

CalcApply ==
    /\ calcOut = NoCalc
    /\ calcOut' = swe_calc_lonlat(calcIn)
    /\ UNCHANGED << signIn, signOut, calcIn, aspIn, aspOut, aspDone >>
    /\ UNCHANGED natalVars

InitCalc ==
    /\ NatalIdle
    /\ calcIn \in [{FLG_SWIEPH_SPEED, FLG_SWIEPH, FLG_MOSEPH} -> CalcAnswers]
    /\ calcOut = NoCalc
    /\ signIn = 0 /\ signOut = NoSign
    /\ aspIn = << >> /\ aspOut = << >> /\ aspDone = FALSE

NextCalc == CalcApply

SpecCalc == InitCalc /\ [][NextCalc]_vars

\* Longitudes swe_calc_lonlat returns for the bodies of an aspects input.
AspLons ==
    { 0, 8 * Deg, 8 * Deg + 100, 96 * Deg, 180 * Deg, 300 * Deg, 359 * Deg + 999960 }

\* The node longitudes of an aspects input (-1: the node block failed).
AspNodes == { -1, 172 * Deg }

\* The planets list natal builds when the bodies of P get the longitudes g, the
\* other bodies fail, and the node is nd.
MakePlanets(P, g, nd) ==
    LET entry(i) ==
            IF i \in P
            THEN PlanetEntries(planet_labels[i],
                               [ok |-> TRUE, lon |-> g[i], lat |-> 0, exc |-> "none",
                                calls |-> << >>])
            ELSE PlanetEntries(planet_labels[i], CalcFail("collaborator error", << >>))
        RECURSIVE upto(_)
        upto(i) == IF i = 0 THEN << >> ELSE upto(i - 1) \o entry(i)
    IN upto(Len(planet_labels)) \o (IF nd < 0 THEN << >> ELSE NodeEntries(nd))

AspApply ==
    /\ ~aspDone
    /\ aspOut' = Aspects(aspIn)
    /\ aspDone' = TRUE
    /\ UNCHANGED << signIn, signOut, calcIn, calcOut, aspIn >>
    /\ UNCHANGED natalVars

InitAspects ==
    /\ NatalIdle
    /\ \E P \in { S \in SUBSET (1..Len(planet_labels)) : Cardinality(S) <= MaxBodies } :
          \E g \in [P -> AspLons], nd \in AspNodes :
             aspIn = MakePlanets(P, g, nd)
    /\ aspOut = << >> /\ aspDone = FALSE
    /\ signIn = 0 /\ signOut = NoSign
    /\ calcIn = NoCalcIn /\ calcOut = NoCalc

NextAspects == AspApply

SpecAspects == InitAspects /\ [][NextAspects]_vars

\* ------------------------------------------------------------------ claims
\* The aspect table as the documentation states it: name, exact angle, orb.
C1_Table ==
    << << "conjunction", 0, 8 >>, << "opposition", 180, 8 >>, << "trine", 120, 7 >>,
       << "square", 90, 6 >>, << "sextile", 60, 5 >> >>

\* The entries of the aspects input that have a longitude.
C1_Bodies == { i \in 1..Len(aspIn) : HasLon(aspIn[i]) }

\* min(|a-b|, 360-|a-b|) in exact arithmetic.
C1_Dist(a, b) == Min(Abs(a - b), 360 * Deg - Abs(a - b))

\* The table entries whose |dist - exact| <= orb.
C1_Matches(d) ==
    { k \in 1..Len(C1_Table) : Abs(d - C1_Table[k][2] * Deg) <= C1_Table[k][3] * Deg }

\* The recorded aspects between the bodies named x and y, in either order.
C1_Found(x, y) ==
    { k \in 1..Len(aspOut) : {aspOut[k].a, aspOut[k].b} = {x, y} }

\* C1: for every unordered pair of distinct bodies that have a longitude, the
\* distance min(|a-b|, 360-|a-b|) is in [0, 180]; the aspect list holds one
\* entry for the pair exactly when some table entry has |dist - exact| <= orb,
\* and none otherwise; its type is the first matching entry of the table and
\* its orb is at most that type's orb; no entry pairs a body with itself.
C1_AspectsPerPair ==
    aspDone =>
        /\ \A k \in 1..Len(aspOut) :
              /\ aspOut[k].a # aspOut[k].b
              /\ \E i \in C1_Bodies : aspIn[i].name = aspOut[k].a
              /\ \E i \in C1_Bodies : aspIn[i].name = aspOut[k].b
        /\ \A i \in C1_Bodies : \A j \in C1_Bodies :
              i < j =>
                 LET d == C1_Dist(aspIn[i].lon, aspIn[j].lon)
                     m == C1_Matches(d)
                     f == C1_Found(aspIn[i].name, aspIn[j].name)
                 IN /\ d >= 0 /\ d <= 180 * Deg
                    /\ m = {} => f = {}
                    /\ m # {} =>
                          /\ Cardinality(f) = 1
                          /\ LET e == aspOut[CHOOSE k \in f : TRUE]
                                 t == C1_Table[CHOOSE k \in m : \A l \in m : k <= l]
                             IN /\ e.type = t[1]
                                /\ e.exact = t[2]
                                /\ e.orb >= 0 /\ e.orb <= t[3] * Deg

\* C1 happens: a body reported at 360.0 and the North Node at 172.0 are
\* recorded as an opposition at the edge of its orb, and the North Node and
\* the South Node, 180 apart, as an exact one.
C1_Witness ==
    /\ aspDone
    /\ \E i \in C1_Bodies :
          /\ aspIn[i].lon = 360 * Deg
          /\ \E k \in C1_Found(aspIn[i].name, "North Node") :
                aspOut[k].type = "opposition" /\ aspOut[k].orb = 8 * Deg
    /\ \E k \in C1_Found("North Node", "South Node") : aspOut[k].orb = 0

\* The exact (real-number) reduction of a longitude to [0, 360).
ExactMod360(x) == x % (360 * Deg)

\* C2: lon_to_sign_deg is total over every longitude, negative and >= 360
\* included: the index is floor((L mod 360) / 30), always in 0..11, the sign
\* is SIGNS[index], and so L and L + 360k map to the same sign.
C2_SignTotal ==
    signOut # NoSign =>
        /\ signOut.ok
        /\ signOut.idx \in 0..11
        /\ signOut.idx = ExactMod360(signIn) \div (30 * Deg)
        /\ signOut.sign = SIGNS[signOut.idx + 1]

\* The house-system value with its whitespace and hyphens removed.
RECURSIVE C5_Squash(_)
C5_Squash(s) ==
    IF s = << >> THEN s
    ELSE IF Head(s) \in {" ", "-"} THEN C5_Squash(Tail(s))
    ELSE << Head(s) >> \o C5_Squash(Tail(s))

\* The canonical names v is a variant of, insensitively to case, whitespace
\* and hyphens.
C5_Canon(v) == { K \in HOUSE_KEYS : Lower(K) = Lower(C5_Squash(v)) }

\* C3: a request with a valid date and timezone whose time is absent or blank
\* succeeds, with empty house cusps and the planetary bodies populated.
C3_TimeAssumed ==
    ( /\ pc = "done"
      /\ req.timezone \in KnownZones
      /\ ~req.time.given \/ Strip(req.time.s) = << >>
      /\ ~req.house.given \/ C5_Canon(req.house.s) # {} )
    => /\ resp.status = 200
       /\ body.houses = << >>
       /\ Len(body.planets) >= Len(planet_labels)

\* A time string in strict 24-hour HH:MM.
C4_StrictHHMM(s) ==
    /\ Len(s) = 5
    /\ IsDigit(s[1]) /\ IsDigit(s[2]) /\ s[3] = ":" /\ IsDigit(s[4]) /\ IsDigit(s[5])
    /\ 10 * DigitVal(s[1]) + DigitVal(s[2]) <= 23
    /\ 10 * DigitVal(s[4]) + DigitVal(s[5]) <= 59

\* The request carries one of the three validation errors.
C4_Invalid ==
    \/ req.timezone \notin KnownZones
    \/ req.time.given /\ ~C4_StrictHHMM(req.time.s)
    \/ req.house.given /\ C5_Canon(req.house.s) = {}

\* C4: every validation error (unknown timezone, time not in strict HH:MM,
\* unrecognized house system) ends the request with a client-error status,
\* and no call to the ephemeris collaborator has been made.
C4_ValidationClientError ==
    (pc = "done" /\ C4_Invalid) => (resp.status \in 400..499 /\ ~ephCalled)

\* C5: every variant of a canonical house-system name (case, whitespace and
\* hyphens ignored) is accepted and resolved to that canonical system, and
\* every other value is rejected.
C5_HouseVariants ==
    /\ (pc = "to_utc" /\ req.house.given) =>
          /\ C5_Canon(req.house.s) # {}
          /\ \A K \in C5_Canon(req.house.s) :
                HOUSE_MAP(payload.house_system) = HOUSE_MAP(K)
    /\ (pc = "done" /\ resp.step = "validate" /\ req.time.given) =>
          C5_Canon(req.house.s) = {}

\* The position natal reports for the i-th body when its lookup succeeds.
C6_Position(e, i) ==
    /\ HasLon(e) /\ "sign" \in DOMAIN e /\ "error" \notin DOMAIN e
    /\ e.lon = Round(EphLon[i] % (360 * Deg), 4)
    /\ e.lat = Round(EphLat[i], 4)

\* The entry e is the one the i-th body must have.
C6_EntryOk(e, i) ==
    /\ e.name = planet_labels[i]
    /\ IF planet_labels[i] \in failedBodies
       THEN "error" \in DOMAIN e /\ ~HasLon(e) /\ "sign" \notin DOMAIN e
       ELSE C6_Position(e, i)

\* C6: whichever of the ten bodies fail their lookup, the loop over the bodies
\* runs to its end and the request succeeds; the planets list starts with one
\* entry per body in the order Sun..Pluto, a failed body's entry carries an
\* error marker and no position, every other body's entry its position.
C6_BodyFailureIsolated ==
    /\ pc \in {"planets", "finish"} =>
          /\ Len(planets) <= Len(planet_labels)
          /\ pc = "finish" => Len(planets) = Len(planet_labels)
          /\ \A i \in 1..Len(planets) : C6_EntryOk(planets[i], i)
          /\ failedBodies \subseteq { planet_labels[i] : i \in 1..Len(planets) }
    /\ (pc = "done" /\ failedBodies # {}) => resp.status = 200
    /\ (pc = "done" /\ resp.status = 200) =>
          /\ Len(body.planets) >= Len(planet_labels)
          /\ \A i \in 1..Len(planet_labels) : C6_EntryOk(body.planets[i], i)
          /\ \A i \in 1..Len(body.planets) :
                i > Len(planet_labels) =>
                   body.planets[i].name \in {"North Node", "South Node"}

\* C6 happens: a request succeeded although the lookups of the Moon, Saturn
\* and Pluto failed and the others did not.
C6_Witness ==
    /\ pc = "done"
    /\ resp.status = 200
    /\ failedBodies = {"Moon", "Saturn", "Pluto"}
    /\ "error" \in DOMAIN body.planets[2]
    /\ HasLon(body.planets[1])

\* The indices of the entries of the returned planets list named n.
C7_Named(n) == { i \in 1..Len(body.planets) : body.planets[i].name = n }

C7_BothAbsent == C7_Named("North Node") = {} /\ C7_Named("South Node") = {}

C7_BothPresent ==
    Cardinality(C7_Named("North Node")) = 1 /\ Cardinality(C7_Named("South Node")) = 1

C7_NorthLon == body.planets[CHOOSE i \in C7_Named("North Node") : TRUE].lon

C7_SouthLon == body.planets[CHOOSE i \in C7_Named("South Node") : TRUE].lon

\* The node block ran and its except clause swallowed an exception.
C7_NodeFailed == nodeExc \notin {"notrun", "none"}

\* The distance of two longitudes on the circle.
C7_CircDist(a, b) ==
    LET d == Abs(a - b) % (360 * Deg) IN Min(d, 360 * Deg - d)

\* C7 as stated: a failed node computation leaves a successful response with
\* no node entry, and the node entries of a successful response are both
\* absent, or both present with South = (North + 180) mod 360 exactly.
C7_NodesExact ==
    /\ (pc = "done" /\ C7_NodeFailed) => (resp.status = 200 /\ C7_BothAbsent)
    /\ (pc = "done" /\ resp.status = 200) =>
          \/ C7_BothAbsent
          \/ /\ C7_BothPresent
             /\ C7_SouthLon = (C7_NorthLon + 180 * Deg) % (360 * Deg)

\* C7, amended: a failed node computation leaves a successful response with no
\* node entry, and the node entries of a successful response are both absent,
\* or both present with the reported South longitude within 0.0001 degree, on
\* the circle, of the reported North longitude + 180.
C7_NodesWithinRounding ==
    /\ (pc = "done" /\ C7_NodeFailed) => (resp.status = 200 /\ C7_BothAbsent)
    /\ (pc = "done" /\ resp.status = 200) =>
          \/ C7_BothAbsent
          \/ /\ C7_BothPresent
             /\ C7_CircDist(C7_SouthLon, C7_NorthLon + 180 * Deg) <= 100

\* C7 happens: the node computation failed, the request succeeded and its
\* planets list holds the ten bodies only.
C7_Witness ==
    /\ pc = "done"
    /\ resp.status = 200
    /\ C7_NodeFailed
    /\ Len(body.planets) = Len(planet_labels)

\* C8: with a secret configured, a request that does not present it is
\* rejected as unauthorized before time normalization or any ephemeris call;
\* with no secret configured every request is accepted.
C8_Unauthorized ==
    (secret # "none" /\ pc # "idle" /\ req.header # secret) =>
        /\ ~ephCalled
        /\ utc = NoUtc
        /\ pc \in {"validate", "done"}
        /\ pc = "done" => resp.status = 401

\* The request ended as a fatal computation error: server-error status, a
\* descriptive message, no chart.
C9_Fatal ==
    /\ resp.status \in 500..599
    /\ resp.detail[1] = "Calculation error"
    /\ resp.detail[2] # ""
    /\ body = NoBody

\* The error marker of a body whose lookup got a malformed answer.
C9_ShapeMarker == << "calc failed", "RuntimeError: pyswisseph returned invalid tuple" >>

\* C9 as stated: a shape error of the collaborator, the one of a per-body
\* lookup included, ends the request with a server error and no chart.
C9_ShapeErrorFatal ==
    (pc = "done" /\ shapeAt # {}) => C9_Fatal

\* C9, amended: a shape error of the collaborator outside the per-body lookup
\* ends the request with a server error, a descriptive message and no chart;
\* a shape error of a per-body lookup does not end the request, it becomes
\* the error marker of that body's entry.
C9_ShapeErrorFatalOutsideLookup ==
    /\ (pc = "done" /\ "houses" \in shapeAt) => C9_Fatal
    /\ (pc = "done" /\ "planets" \in shapeAt) =>
          /\ resp.status = 200
          /\ \A i \in 1..Len(planet_labels) :
                planet_labels[i] \in failedBodies =>
                   body.planets[i].error = C9_ShapeMarker

\* C9 happens: the house cusps came back without a longitude and the request
\* ended with status 500.
C9_Witness ==
    /\ pc = "done"
    /\ "houses" \in shapeAt
    /\ resp.status = 500
    /\ resp.step = "houses"

\* The order of the fallback as the documentation states it.
C10_Stages == << "SWIEPH|SPEED", "SWIEPH", "MOSEPH" >>

\* The stage's answer neither raises nor is malformed.
C10_Succeeds(k) ==
    LET a == calcIn[C10_Stages[k]]
    IN ~a.raises /\ a.arity = 2 /\ a.isSeq /\ Len(a.vals) >= 2

\* C10: the stages are called in the order full ephemeris with speed, full
\* ephemeris, analytic model, up to and including the first one that
\* succeeds and none after it; the result is that stage's; the call fails
\* only when all three stages, the third included, raise or are malformed.
C10_FallbackOrder ==
    calcOut # NoCalc =>
        LET good == { k \in 1..3 : C10_Succeeds(k) }
        IN /\ Len(calcOut.calls) <= 3
           /\ IF good = {}
              THEN ~calcOut.ok /\ calcOut.calls = C10_Stages
              ELSE LET first == CHOOSE k \in good : \A l \in good : k <= l
                       a == calcIn[C10_Stages[first]]
                   IN /\ calcOut.ok
                      /\ calcOut.calls = SubSeq(C10_Stages, 1, first)
                      /\ calcOut.lon = PyMod(a.vals[1], 360 * Deg)
                      /\ calcOut.lat = a.vals[2]

\* C10 happens: the first stage raised, the second answered a malformed
\* value and the third succeeded.
C10_Witness ==
    /\ calcOut # NoCalc
    /\ calcIn["SWIEPH|SPEED"].raises
    /\ ~calcIn["SWIEPH"].raises /\ ~C10_Succeeds(2)
    /\ calcOut.ok
    /\ Len(calcOut.calls) = 3

====
